---- MODULE Spec2Model ----
(***************************************************************************)
(* Model of src/file_system.py: an in-memory tree of TrieNode objects with *)
(* a cursor (FileSystem.current), driven by the path operations mkdir,     *)
(* touch, ls, cd, pwd, cat, rm and the shell's "echo text > path" write.   *)
(*                                                                         *)
(* A Python string is a sequence of one-character strings, so that         *)
(* splitting on "/", stripping blanks and comparing strings are computed   *)
(* and not assumed.  A TrieNode object is an identifier (a natural number) *)
(* into the heap `nodes`; objects that were unlinked by rm stay in the     *)
(* heap, because the cursor and parent references may still reach them.    *)
(***************************************************************************)
EXTENDS Integers, Sequences, FiniteSets, TLC

VARIABLES nodes, current, last

vars == <<nodes, current, last>>

\* ---------------------------------------------------------------- bounds
\* how many TrieNode objects a run may create besides the root
MaxNodes     == 2
MaxTripNodes == 3
MaxLsNodes   == 3
MaxNavNodes  == 3
MaxEdgeNodes == 2
\* the longest run of ".." components given to cd
MaxUp        == 3

\* ------------------------------------------------------------- constants
NONE == -1
Root == 0

Slash  == "/"
Dot    == <<".">>
DotDot == <<".", ".">>
EmptyStr == <<>>
EmptyChildren == [x \in {} |-> 0]

\* ---------------------------------------------------------------- inputs
\* Path strings and texts the operations are called with.
P_empty  == <<>>
P_slash  == <<"/">>
P_dot    == <<".">>
P_dotdot == <<".", ".">>
P_a      == <<"a">>
P_f      == <<"f">>
P_abs_a  == <<"/", "a">>
P_up_a   == <<".", ".", "/", "a">>
P_f_b    == <<"f", "/", "b">>
P_a_b    == <<"a", "/", "b">>
P_a_b_c  == <<"a", "/", "b", "/", "c">>

MkdirPaths == {P_a, P_abs_a, P_f_b}
TouchPaths == {P_f, P_dotdot}
CdPaths    == {P_slash, P_dot, P_dotdot, P_a, P_f}
RmPaths    == {P_a, P_up_a, P_dotdot, P_f}
WritePaths == {P_f}
CatPaths   == {P_f}
LsPaths    == {P_empty}
Texts      == { <<"h", "i">>, <<" ", "h", " ">> }

\* inputs of the mkdir / cd / pwd round trip
TripMkdirPaths == {P_a_b_c, P_a_b}
TripTouchPaths == {P_a_b_c, P_a_b}
TripCdPaths    == {P_a_b_c, P_a, P_slash}
TripRmPaths    == {P_a_b}
TripFilePaths  == {P_a_b}
TripTexts      == { <<"h">> }

\* inputs of the listing
P_z   == <<"z">>
P_m   == <<"m">>
P_a_t == <<"a", ".", "t">>
LsMkdirPaths == {P_z, P_a}
LsTouchPaths == {P_m, P_a_t}
LsCdPaths    == {P_a, P_slash}
LsRmPaths    == {P_a}
LsFilePaths  == {P_m}
LsLsPaths    == {P_empty, P_a, P_m}

\* inputs of the parent navigation
P_up_up    == <<".", ".", "/", ".", ".">>
P_up_up_up == <<".", ".", "/", ".", ".", "/", ".", ".">>
NavMkdirPaths == {P_a_b}
NavTouchPaths == {P_f, P_dotdot}
NavCdPaths    == {P_dotdot, P_up_up, P_up_up_up, P_a_b, P_a}
NavRmPaths    == {P_up_a}
NavFilePaths  == {P_f}

\* inputs of the create / remove outcomes: names taken, parents that are
\* missing or are files, "." and ".." components, zero components
P_a_f    == <<"a", "/", "f">>
P_a_dot  == <<"a", "/", ".">>
P_a_up_b == <<"a", "/", ".", ".", "/", "b">>
P_f_up_f == <<"f", "/", ".", ".", "/", "f">>
EdgeMkdirPaths == {P_f_b, P_a_dot, P_a_up_b}
EdgeTouchPaths == {P_f, P_a_f, P_f_b, P_a_dot, P_empty}
EdgeCdPaths    == {P_a, P_f, P_slash}
EdgeRmPaths    == {P_a, P_f, P_a_f, P_f_b, P_empty}
EdgeWritePaths == {P_f}
EdgeCatPaths   == {P_f, P_f_up_f}
EdgeLsPaths    == {P_empty}

\* ------------------------------------------------------- string helpers
RECURSIVE SplitFrom(_, _, _)
SplitFrom(s, i, acc) ==
  IF i > Len(s) THEN <<acc>>
  ELSE IF s[i] = Slash THEN <<acc>> \o SplitFrom(s, i + 1, <<>>)
  ELSE SplitFrom(s, i + 1, Append(acc, s[i]))

Split(s) == SplitFrom(s, 1, <<>>)

RECURSIVE NonEmpty(_)
NonEmpty(segs) ==
  IF segs = <<>> THEN <<>>
  ELSE IF Head(segs) = <<>> THEN NonEmpty(Tail(segs))
  ELSE <<Head(segs)>> \o NonEmpty(Tail(segs))

RECURSIVE LStrip(_)
LStrip(s) == IF s # <<>> /\ Head(s) = " " THEN LStrip(Tail(s)) ELSE s

RECURSIVE RStrip(_)
RStrip(s) ==
  IF s # <<>> /\ s[Len(s)] = " " THEN RStrip(SubSeq(s, 1, Len(s) - 1)) ELSE s

Strip(s) == RStrip(LStrip(s))

\* ----------------------------------------------------------- the objects
TrieNode(name, is_file, parent) ==
  [name |-> name, is_file |-> is_file, children |-> EmptyChildren,
   parent |-> parent, content |-> EmptyStr]

NewId(ns) == Cardinality(DOMAIN ns)

AddChild_ParentRoot(ns, dir, name, is_file) ==
  LET id == NewId(ns) IN
  [n \in DOMAIN ns \cup {id} |->
     IF n = id THEN TrieNode(name, is_file, Root)
     ELSE IF n = dir
          THEN [ns[n] EXCEPT !.children =
                  [k \in DOMAIN ns[n].children \cup {name} |->
                     IF k = name THEN id ELSE ns[n].children[k]]]
          ELSE ns[n]]

AddChild(ns, dir, name, is_file) ==
  LET id == NewId(ns) IN
  [n \in DOMAIN ns \cup {id} |->
     IF n = id THEN TrieNode(name, is_file, dir)
     ELSE IF n = dir
          THEN [ns[n] EXCEPT !.children =
                  [k \in DOMAIN ns[n].children \cup {name} |->
                     IF k = name THEN id ELSE ns[n].children[k]]]
          ELSE ns[n]]

DelChild_Clear(ns, dir, name) ==
  [ns EXCEPT ![dir].children = EmptyChildren]

DelChild(ns, dir, name) ==
  [ns EXCEPT ![dir].children =
     [k \in DOMAIN ns[dir].children \ {name} |-> ns[dir].children[k]]]

\* -------------------------------------------------------- path resolver
ParsePath(path) ==
  IF path = <<>> THEN <<>>
  ELSE IF Head(path) = Slash THEN NonEmpty(Split(Tail(path)))
  ELSE NonEmpty(Split(path))

Last(comps) == comps[Len(comps)]
AllButLast(comps) == SubSeq(comps, 1, Len(comps) - 1)

RECURSIVE Walk(_, _, _, _)
Walk_DotDotFailsAtRoot(ns, node, comps, i) ==
  IF i > Len(comps) THEN node
  ELSE LET comp == comps[i] IN
    IF comp = DotDot
      THEN IF ns[node].parent # NONE
             THEN Walk(ns, ns[node].parent, comps, i + 1) ELSE NONE
    ELSE IF comp = Dot THEN Walk(ns, node, comps, i + 1)
    ELSE IF comp \in DOMAIN ns[node].children
      THEN LET child == ns[node].children[comp] IN
           IF ns[child].is_file /\ comp # Last(comps) THEN NONE
           ELSE Walk(ns, child, comps, i + 1)
    ELSE NONE

Walk(ns, node, comps, i) ==
  IF i > Len(comps) THEN node
  ELSE LET comp == comps[i] IN
    IF comp = DotDot
      THEN Walk(ns, IF ns[node].parent # NONE THEN ns[node].parent ELSE node,
                comps, i + 1)
    ELSE IF comp = Dot THEN Walk(ns, node, comps, i + 1)
    ELSE IF comp \in DOMAIN ns[node].children
      THEN LET child == ns[node].children[comp] IN
           IF ns[child].is_file /\ comp # Last(comps) THEN NONE
           ELSE Walk(ns, child, comps, i + 1)
    ELSE NONE

TraverseStart(cur, comps) ==
  IF comps # <<>> /\ comps[1] = EmptyStr THEN Root ELSE cur

Traverse(ns, cur, comps) == Walk(ns, TraverseStart(cur, comps), comps, 1)

RECURSIVE CreateWalk(_, _, _, _)
CreateWalk_NoDotCase(ns, node, comps, i) ==
  IF i > Len(comps) THEN ns
  ELSE LET comp == comps[i] IN
    IF comp = DotDot
      THEN CreateWalk(ns, IF ns[node].parent # NONE THEN ns[node].parent
                          ELSE node, comps, i + 1)
    ELSE IF comp \notin DOMAIN ns[node].children
      THEN CreateWalk(AddChild(ns, node, comp, FALSE), NewId(ns), comps, i + 1)
    ELSE CreateWalk(ns, ns[node].children[comp], comps, i + 1)

CreateWalk_NoDescend(ns, node, comps, i) ==
  IF i > Len(comps) THEN ns
  ELSE LET comp == comps[i] IN
    IF comp = DotDot
      THEN CreateWalk(ns, IF ns[node].parent # NONE THEN ns[node].parent
                          ELSE node, comps, i + 1)
    ELSE IF comp = Dot THEN CreateWalk(ns, node, comps, i + 1)
    ELSE IF comp \notin DOMAIN ns[node].children
      THEN CreateWalk(AddChild(ns, node, comp, FALSE), node, comps, i + 1)
    ELSE CreateWalk(ns, ns[node].children[comp], comps, i + 1)

CreateWalk(ns, node, comps, i) ==
  IF i > Len(comps) THEN ns
  ELSE LET comp == comps[i] IN
    IF comp = DotDot
      THEN CreateWalk(ns, IF ns[node].parent # NONE THEN ns[node].parent
                          ELSE node, comps, i + 1)
    ELSE IF comp = Dot THEN CreateWalk(ns, node, comps, i + 1)
    ELSE IF comp \notin DOMAIN ns[node].children
      THEN CreateWalk(AddChild(ns, node, comp, FALSE), NewId(ns), comps, i + 1)
    ELSE CreateWalk(ns, ns[node].children[comp], comps, i + 1)

CreateDirectory(ns, cur, comps) ==
  CreateWalk(ns, IF comps[1] = EmptyStr THEN Root ELSE cur, comps, 1)

\* ------------------------------------------- the operations as functions
MkdirNodes(ns, cur, path) ==
  LET components == ParsePath(path) IN
  IF Traverse(ns, cur, components) = NONE
    THEN CreateDirectory(ns, cur, components)
    ELSE ns

TouchNodes_UnderFile(ns, cur, path) ==
  LET components == ParsePath(path) IN
  IF components = <<>> THEN ns
  ELSE LET dir_node  == Traverse(ns, cur, AllButLast(components))
           file_name == Last(components)
       IN IF dir_node # NONE
               /\ file_name \notin DOMAIN ns[dir_node].children
            THEN AddChild(ns, dir_node, file_name, TRUE)
            ELSE ns

TouchNodes_Overwrite(ns, cur, path) ==
  LET components == ParsePath(path) IN
  IF components = <<>> THEN ns
  ELSE LET dir_node  == Traverse(ns, cur, AllButLast(components))
           file_name == Last(components)
       IN IF dir_node # NONE /\ ~ns[dir_node].is_file
            THEN AddChild(ns, dir_node, file_name, TRUE)
            ELSE ns

TouchNodes(ns, cur, path) ==
  LET components == ParsePath(path) IN
  IF components = <<>> THEN ns
  ELSE LET dir_node  == Traverse(ns, cur, AllButLast(components))
           file_name == Last(components)
       IN IF dir_node # NONE /\ ~ns[dir_node].is_file
               /\ file_name \notin DOMAIN ns[dir_node].children
            THEN AddChild(ns, dir_node, file_name, TRUE)
            ELSE ns

CdCursor_NoSlashCase(ns, cur, path) ==
  LET target_node == Traverse(ns, cur, ParsePath(path)) IN
  IF target_node # NONE /\ ~ns[target_node].is_file
    THEN target_node ELSE cur

CdCursor_NoFileCheck(ns, cur, path) ==
  IF path = <<Slash>> THEN Root
  ELSE LET target_node == Traverse(ns, cur, ParsePath(path)) IN
       IF target_node # NONE THEN target_node ELSE cur

CdCursor(ns, cur, path) ==
  IF path = <<Slash>> THEN Root
  ELSE LET target_node == Traverse(ns, cur, ParsePath(path)) IN
       IF target_node # NONE /\ ~ns[target_node].is_file
         THEN target_node ELSE cur

RmNodes(ns, cur, path) ==
  LET components == ParsePath(path) IN
  IF components = <<>> THEN ns
  ELSE LET node == Traverse(ns, cur, AllButLast(components)) IN
       IF node # NONE /\ Last(components) \in DOMAIN ns[node].children
         THEN DelChild(ns, node, Last(components))
         ELSE ns

WriteNodes_Append(ns, cur, text, filepath) ==
  LET file_node == Traverse(ns, cur, ParsePath(filepath)) IN
  IF file_node # NONE /\ ns[file_node].is_file
    THEN [ns EXCEPT ![file_node].content = @ \o text]
    ELSE ns

WriteNodes(ns, cur, text, filepath) ==
  LET file_node == Traverse(ns, cur, ParsePath(filepath)) IN
  IF file_node # NONE /\ ns[file_node].is_file
    THEN [ns EXCEPT ![file_node].content = text]
    ELSE ns

RECURSIVE Reverse(_)
Reverse(s) == IF s = <<>> THEN <<>> ELSE Append(Reverse(Tail(s)), Head(s))

\* ------------------------------------------------ what the reads print
RECURSIVE Join(_, _)
Join(strs, sep) ==
  IF strs = <<>> THEN <<>>
  ELSE IF Len(strs) = 1 THEN strs[1]
  ELSE strs[1] \o sep \o Join(Tail(strs), sep)

Ord(c) ==
  CASE c = " " -> 32 [] c = "." -> 46 [] c = "/" -> 47 [] c = ":" -> 58
    [] c = "E" -> 69 [] c = "F" -> 70 [] c = "P" -> 80
    [] c = "a" -> 97 [] c = "b" -> 98 [] c = "c" -> 99 [] c = "d" -> 100
    [] c = "e" -> 101 [] c = "f" -> 102 [] c = "h" -> 104 [] c = "i" -> 105
    [] c = "l" -> 108 [] c = "m" -> 109 [] c = "n" -> 110 [] c = "o" -> 111
    [] c = "p" -> 112 [] c = "r" -> 114 [] c = "t" -> 116 [] c = "u" -> 117
    [] c = "y" -> 121 [] c = "z" -> 122

RECURSIVE StrLess(_, _)
StrLess(s, t) ==
  IF t = <<>> THEN FALSE
  ELSE IF s = <<>> THEN TRUE
  ELSE IF Head(s) = Head(t) THEN StrLess(Tail(s), Tail(t))
  ELSE Ord(Head(s)) < Ord(Head(t))

RECURSIVE Sorted(_)
Sorted(S) ==
  IF S = {} THEN <<>>
  ELSE LET m == CHOOSE x \in S : \A y \in S \ {x} : StrLess(x, y)
       IN <<m>> \o Sorted(S \ {m})

EmptyDirectory ==
  <<"E", "m", "p", "t", "y", " ", "d", "i", "r", "e", "c", "t", "o", "r", "y">>
PathNotFound ==
  <<"P", "a", "t", "h", " ", "n", "o", "t", " ", "f", "o", "u", "n", "d", ":", " ">>
FileNotFound ==
  <<"F", "i", "l", "e", " ", "n", "o", "t", " ", "f", "o", "u", "n", "d", ":", " ">>

LsEntry_NoSuffix(ns, name, node) == name

LsEntry(ns, name, node) ==
  IF ~ns[node].is_file THEN name \o <<Slash>> ELSE name

LsContents(ns, dir) ==
  Sorted({LsEntry(ns, name, ns[dir].children[name]) :
            name \in DOMAIN ns[dir].children})

LsOut(ns, cur, path) ==
  LET components  == ParsePath(path)
      target_node == IF components # <<>> THEN Traverse(ns, cur, components)
                     ELSE cur
  IN IF target_node = NONE
       THEN PathNotFound \o Join(components, <<Slash>>)
     ELSE IF ns[target_node].is_file THEN ns[target_node].name
     ELSE LET text == Join(LsContents(ns, target_node), <<"\n">>)
          IN IF text # <<>> THEN text ELSE EmptyDirectory

RECURSIVE PwdNames(_, _)
PwdNames(ns, node) ==
  IF ns[node].parent = NONE THEN <<>>
  ELSE <<ns[node].name>> \o PwdNames(ns, ns[node].parent)

PwdOut_NoReverse(ns, cur) ==
  <<Slash>> \o Join(PwdNames(ns, cur), <<Slash>>)

PwdOut(ns, cur) == <<Slash>> \o Join(Reverse(PwdNames(ns, cur)), <<Slash>>)

CatOut(ns, cur, path) ==
  LET components == ParsePath(path)
      file_node  == Traverse(ns, cur, components)
  IN IF file_node # NONE /\ ns[file_node].is_file
       THEN ns[file_node].content
       ELSE FileNotFound \o Join(components, <<Slash>>)

\* ------------------------------------------------------------ the state
Op(op, p, t) == [op |-> op, path |-> p, text |-> t]

Init ==
  /\ nodes = [n \in {Root} |-> TrieNode(EmptyStr, FALSE, NONE)]
  /\ current = Root
  /\ last = Op("init", <<>>, <<>>)

Mkdir(p, cap) ==
  /\ nodes' = MkdirNodes(nodes, current, p)
  /\ NewId(nodes') <= cap + 1
  /\ current' = current
  /\ last' = Op("mkdir", p, <<>>)

Touch(p, cap) ==
  /\ nodes' = TouchNodes(nodes, current, p)
  /\ NewId(nodes') <= cap + 1
  /\ current' = current
  /\ last' = Op("touch", p, <<>>)

Cd(p) ==
  /\ current' = CdCursor(nodes, current, p)
  /\ nodes' = nodes
  /\ last' = Op("cd", p, <<>>)

Rm(p) ==
  /\ nodes' = RmNodes(nodes, current, p)
  /\ current' = current
  /\ last' = Op("rm", p, <<>>)

Write(raw, p) ==
  /\ nodes' = WriteNodes(nodes, current, Strip(raw), Strip(p))
  /\ current' = current
  /\ last' = Op("write", Strip(p), Strip(raw))

Ls_CreatesMissing(p) ==
  /\ nodes' = MkdirNodes(nodes, current, p)
  /\ current' = current
  /\ last' = Op("ls", p, <<>>)

Ls(p) ==
  /\ UNCHANGED <<nodes, current>>
  /\ last' = Op("ls", p, <<>>)

Cat(p) ==
  /\ UNCHANGED <<nodes, current>>
  /\ last' = Op("cat", p, <<>>)

Pwd ==
  /\ UNCHANGED <<nodes, current>>
  /\ last' = Op("pwd", <<>>, <<>>)

Next ==
  \/ \E p \in MkdirPaths : Mkdir(p, MaxNodes)
  \/ \E p \in TouchPaths : Touch(p, MaxNodes)
  \/ \E p \in CdPaths : Cd(p)
  \/ \E p \in RmPaths : Rm(p)
  \/ \E p \in WritePaths, raw \in Texts : Write(raw, p)
  \/ \E p \in LsPaths : Ls(p)
  \/ \E p \in CatPaths : Cat(p)
  \/ Pwd

Spec == Init /\ [][Next]_vars

NextTrip ==
  \/ \E p \in TripMkdirPaths : Mkdir(p, MaxTripNodes)
  \/ \E p \in TripTouchPaths : Touch(p, MaxTripNodes)
  \/ \E p \in TripCdPaths : Cd(p)
  \/ \E p \in TripRmPaths : Rm(p)
  \/ \E p \in TripFilePaths, raw \in TripTexts : Write(raw, p)
  \/ \E p \in {P_empty} : Ls(p)
  \/ \E p \in TripFilePaths : Cat(p)
  \/ Pwd

SpecTrip == Init /\ [][NextTrip]_vars

NextLs ==
  \/ \E p \in LsMkdirPaths : Mkdir(p, MaxLsNodes)
  \/ \E p \in LsTouchPaths : Touch(p, MaxLsNodes)
  \/ \E p \in LsCdPaths : Cd(p)
  \/ \E p \in LsRmPaths : Rm(p)
  \/ \E p \in LsFilePaths, raw \in TripTexts : Write(raw, p)
  \/ \E p \in LsLsPaths : Ls(p)
  \/ \E p \in LsFilePaths : Cat(p)
  \/ Pwd

SpecLs == Init /\ [][NextLs]_vars

NextNav ==
  \/ \E p \in NavMkdirPaths : Mkdir(p, MaxNavNodes)
  \/ \E p \in NavTouchPaths : Touch(p, MaxNavNodes)
  \/ \E p \in NavCdPaths : Cd(p)
  \/ \E p \in NavRmPaths : Rm(p)
  \/ \E p \in NavFilePaths, raw \in TripTexts : Write(raw, p)
  \/ \E p \in {P_empty} : Ls(p)
  \/ \E p \in NavFilePaths : Cat(p)
  \/ Pwd

SpecNav == Init /\ [][NextNav]_vars

NextEdge ==
  \/ \E p \in EdgeMkdirPaths : Mkdir(p, MaxEdgeNodes)
  \/ \E p \in EdgeTouchPaths : Touch(p, MaxEdgeNodes)
  \/ \E p \in EdgeCdPaths : Cd(p)
  \/ \E p \in EdgeRmPaths : Rm(p)
  \/ \E p \in EdgeWritePaths, raw \in TripTexts : Write(raw, p)
  \/ \E p \in EdgeLsPaths : Ls(p)
  \/ \E p \in EdgeCatPaths : Cat(p)
  \/ Pwd

SpecEdge == Init /\ [][NextEdge]_vars

\* =====================================================================
\* Properties
\* =====================================================================
TypeOK == current \in DOMAIN nodes

AllPaths ==
  MkdirPaths \cup TouchPaths \cup CdPaths \cup RmPaths \cup WritePaths
    \cup CatPaths \cup LsPaths

\* the nodes of the subtree under n, n included
RECURSIVE Subtree(_, _)
Subtree(ns, n) ==
  {n} \cup UNION {Subtree(ns, ns[n].children[k]) : k \in DOMAIN ns[n].children}

IsFileAt(ns, cur, comps) ==
  LET t == Traverse(ns, cur, comps) IN t # NONE /\ ns[t].is_file

\* some proper prefix of the component list resolves to a file
PrefixIsFile(ns, cur, comps) ==
  \E k \in 1..(Len(comps) - 1) : IsFileAt(ns, cur, SubSeq(comps, 1, k))

\* C1: every node that is a file has an empty children mapping, in every
\* reachable state.
C1_FileLeaf ==
  \A n \in DOMAIN nodes : nodes[n].is_file => DOMAIN nodes[n].children = {}

\* C2: when a proper prefix of the path resolves to a file, mkdir creates no
\* node and leaves the tree unchanged.
C2_MkdirMidPathGuard ==
  \A p \in MkdirPaths :
    PrefixIsFile(nodes, current, ParsePath(p))
      => MkdirNodes(nodes, current, p) = nodes

\* C3: a path string that begins with "/" is resolved starting at the root,
\* whatever the cursor is; any other path is resolved starting at the cursor.
C3_AbsoluteAnchoring ==
  \A p \in AllPaths :
    LET comps == ParsePath(p) IN
    IF p # <<>> /\ Head(p) = Slash
      THEN Traverse(nodes, current, comps) = Walk(nodes, Root, comps, 1)
      ELSE Traverse(nodes, current, comps) = Walk(nodes, current, comps, 1)

\* C4: the cursor always references a node reachable from the root through
\* children mappings.
C4_CursorLive == current \in Subtree(nodes, Root)

\* C5: the node referenced by the cursor is never a file.
C5_CursorNotFile == ~nodes[current].is_file

\* C5 witness: cd has just been given a path that resolves to a file.
C5_Witness ==
  /\ last.op = "cd"
  /\ IsFileAt(nodes, current, ParsePath(last.path))

\* C6: from every reachable state, two mkdir p in a row give the tree that
\* one mkdir p gives; in particular, right after a mkdir step the same mkdir
\* changes nothing (mkdir never assigns the cursor).
C6_IdempotentMkdir ==
  /\ \A p \in MkdirPaths :
       LET once == MkdirNodes(nodes, current, p)
       IN MkdirNodes(once, current, p) = once
  /\ last.op = "mkdir" => MkdirNodes(nodes, current, last.path) = nodes

\* C6 witness: a mkdir that created its directory has acted, and the path
\* now resolves to that directory.
C6_Witness ==
  /\ last.op = "mkdir"
  /\ LET t == Traverse(nodes, current, ParsePath(last.path))
     IN t # NONE /\ t = NewId(nodes) - 1 /\ ~nodes[t].is_file

CdFails(ns, cur, path) ==
  /\ path # <<Slash>>
  /\ LET t == Traverse(ns, cur, ParsePath(path)) IN t = NONE \/ ns[t].is_file

\* C8: after rm p succeeds, cd p from the same cursor fails, and no node of
\* the removed subtree is reachable from the root.
C8_RmRemovesSubtree ==
  \A p \in RmPaths :
    LET after == RmNodes(nodes, current, p) IN
    after # nodes
      => /\ CdFails(after, current, p)
         /\ LET comps   == ParsePath(p)
                dir     == Traverse(nodes, current, AllButLast(comps))
                removed == nodes[dir].children[Last(comps)]
            IN Subtree(nodes, removed) \cap Subtree(after, Root) = {}

\* C9: a write on a path that resolves to a file makes cat of that path print
\* exactly the written text; a file's content changes only by a write that
\* resolves to that file; a file created by touch has the empty content, and
\* cat prints the empty string for every path that resolves to it.
C9_WriteRead ==
  [][ /\ (last'.op = "write" /\ IsFileAt(nodes, current, ParsePath(last'.path)))
           => CatOut(nodes', current', last'.path) = last'.text
      /\ \A n \in DOMAIN nodes :
           nodes'[n].content # nodes[n].content
             => /\ last'.op = "write"
                /\ Traverse(nodes, current, ParsePath(last'.path)) = n
      /\ \A n \in DOMAIN nodes' \ DOMAIN nodes :
           nodes'[n].is_file
             => /\ last'.op = "touch"
                /\ nodes'[n].content = EmptyStr
                /\ \A q \in AllPaths :
                     Traverse(nodes', current', ParsePath(q)) = n
                       => CatOut(nodes', current', q) = EmptyStr ]_vars

\* C9 witness: a write of a non-empty text to a file has acted and cat of the
\* same path prints that text.
C9_Witness ==
  /\ last.op = "write"
  /\ last.text # EmptyStr
  /\ IsFileAt(nodes, current, ParsePath(last.path))
  /\ CatOut(nodes, current, last.path) = last.text

\* ---------------------------------------------------------------------
\* C7, checked under SpecTrip
NoFileOnPath(ns, cur, comps) ==
  \A k \in 1..Len(comps) : ~IsFileAt(ns, cur, SubSeq(comps, 1, k))

TripPwd ==
  LET made == MkdirNodes(nodes, current, P_a_b_c)
  IN PwdOut(made, CdCursor(made, current, P_a_b_c))

\* C7 as stated: whenever the cursor is the root, mkdir a/b/c, cd a/b/c, pwd
\* reports /a/b/c.
C7_RoundTrip_Original ==
  current = Root => TripPwd = <<"/", "a", "/", "b", "/", "c">>

\* C7 as amended: whenever the cursor is the root and none of a, a/b, a/b/c
\* resolves to a file, mkdir a/b/c, cd a/b/c, pwd reports /a/b/c.
C7_RoundTrip ==
  (current = Root /\ NoFileOnPath(nodes, current, ParsePath(P_a_b_c)))
    => TripPwd = <<"/", "a", "/", "b", "/", "c">>

\* C7 witness: cd a/b/c has acted on the directories mkdir made and pwd
\* prints /a/b/c.
C7_Witness ==
  /\ last.op = "cd"
  /\ last.path = P_a_b_c
  /\ PwdOut(nodes, current) = <<"/", "a", "/", "b", "/", "c">>

\* ---------------------------------------------------------------------
\* C10, checked under SpecLs
Directories == {d \in DOMAIN nodes : ~nodes[d].is_file}

EntryName(e) ==
  IF e # <<>> /\ e[Len(e)] = Slash THEN SubSeq(e, 1, Len(e) - 1) ELSE e

Range(f) == {f[x] : x \in DOMAIN f}

\* one entry per child; a directory's entry is its name followed by "/", a
\* file's entry is its name
EntriesMatchChildren(d) ==
  LET es == LsContents(nodes, d) IN
  /\ Len(es) = Cardinality(DOMAIN nodes[d].children)
  /\ Range(es) =
       {IF nodes[nodes[d].children[k]].is_file THEN k ELSE k \o <<Slash>> :
          k \in DOMAIN nodes[d].children}

\* what ls prints for the path: the entries one per line, or the indicator
PrintsEntries(p) ==
  LET comps == ParsePath(p)
      d     == IF comps = <<>> THEN current ELSE Traverse(nodes, current, comps)
  IN (d # NONE /\ ~nodes[d].is_file)
       => LsOut(nodes, current, p) =
            IF DOMAIN nodes[d].children = {} THEN EmptyDirectory
            ELSE Join(LsContents(nodes, d), <<"\n">>)

\* C10 as stated: ls reports one entry per child, in lexicographic order of
\* the child names, directories suffixed with "/", files unsuffixed; an empty
\* directory reports the empty indicator.
C10_ListingOrder_Original ==
  /\ \A d \in Directories :
       /\ EntriesMatchChildren(d)
       /\ LET es == LsContents(nodes, d) IN
          \A i, j \in 1..Len(es) :
            i < j => StrLess(EntryName(es[i]), EntryName(es[j]))
  /\ \A p \in LsLsPaths : PrintsEntries(p)

\* C10 as amended: ls reports one entry per child, directories suffixed with
\* "/", files unsuffixed, in lexicographic order of the reported entries (the
\* suffix included); an empty directory reports the empty indicator.
C10_ListingOrder ==
  /\ \A d \in Directories :
       /\ EntriesMatchChildren(d)
       /\ LET es == LsContents(nodes, d) IN
          \A i, j \in 1..Len(es) : i < j => StrLess(es[i], es[j])
  /\ \A p \in LsLsPaths : PrintsEntries(p)

\* C10 witness: after mkdir z, mkdir a, touch m, ls has printed a/, m, z/.
C10_Witness ==
  /\ last.op = "ls"
  /\ LsOut(nodes, current, last.path) =
       <<"a", "/", "\n", "m", "\n", "z", "/">>

\* ---------------------------------------------------------------------
\* C11, checked under SpecNav
Depth(ns, n) == Len(PwdNames(ns, n))

RECURSIVE Ancestors(_, _)
Ancestors(ns, n) ==
  IF ns[n].parent = NONE THEN {n} ELSE {n} \cup Ancestors(ns, ns[n].parent)

RECURSIVE Ups(_)
Ups(k) == IF k = 0 THEN <<>> ELSE <<DotDot>> \o Ups(k - 1)

\* the path string "../../.." with k components
UpPath(k) == Join(Ups(k), <<Slash>>)

Max(x, y) == IF x > y THEN x ELSE y

NameTaken(ns, cur, path) ==
  LET comps == ParsePath(path) IN
  /\ comps # <<>>
  /\ LET dir == Traverse(ns, cur, AllButLast(comps))
     IN dir # NONE /\ Last(comps) \in DOMAIN ns[dir].children

\* C12: no two children of one parent share a name; touch or mkdir aimed at a
\* name already present under the parent keeps the existing node and adds
\* nothing.
C12_SiblingUniqueness ==
  /\ \A d \in DOMAIN nodes :
       \A k1, k2 \in DOMAIN nodes[d].children :
         LET n1 == nodes[d].children[k1]
             n2 == nodes[d].children[k2]
         IN (n1 = n2 \/ nodes[n1].name = nodes[n2].name) => k1 = k2
  /\ \A p \in EdgeTouchPaths :
       NameTaken(nodes, current, p) => TouchNodes(nodes, current, p) = nodes
  /\ \A p \in EdgeMkdirPaths :
       NameTaken(nodes, current, p) => MkdirNodes(nodes, current, p) = nodes

\* C12 witness: touch has acted on a name that a directory holds, and the
\* directory is still there.
C12_Witness ==
  /\ last.op = "touch"
  /\ NameTaken(nodes, current, last.path)
  /\ LET comps == ParsePath(last.path)
         dir   == Traverse(nodes, current, AllButLast(comps))
     IN ~nodes[nodes[dir].children[Last(comps)]].is_file

\* the step adds exactly one node, of the given kind and name, with empty
\* content and no children, as the child `name` of dir, and changes nothing
\* else
AddsOneNode(dir, name, is_file) ==
  /\ Cardinality(DOMAIN nodes' \ DOMAIN nodes) = 1
  /\ DOMAIN nodes \subseteq DOMAIN nodes'
  /\ LET new == CHOOSE n \in DOMAIN nodes' : n \notin DOMAIN nodes IN
     /\ nodes'[new] = [name |-> name, is_file |-> is_file,
                       children |-> EmptyChildren, parent |-> dir,
                       content |-> EmptyStr]
     /\ DOMAIN nodes'[dir].children = DOMAIN nodes[dir].children \cup {name}
     /\ nodes'[dir].children[name] = new
     /\ \A k \in DOMAIN nodes[dir].children :
          nodes'[dir].children[k] = nodes[dir].children[k]
     /\ [nodes'[dir] EXCEPT !.children = nodes[dir].children] = nodes[dir]
     /\ \A n \in DOMAIN nodes \ {dir} : nodes'[n] = nodes[n]

\* C13: touch p adds exactly one empty file named by the last component under
\* the node the other components resolve to, if and only if that node exists,
\* is a directory and has no child of that name; otherwise the tree is
\* unchanged; the cursor is unchanged in every case.
C13_TouchOutcome ==
  [][ last'.op = "touch" =>
        LET comps == ParsePath(last'.path)
            dir   == IF comps = <<>> THEN NONE
                     ELSE Traverse(nodes, current, AllButLast(comps))
            free  == /\ dir # NONE
                     /\ ~nodes[dir].is_file
                     /\ Last(comps) \notin DOMAIN nodes[dir].children
        IN /\ current' = current
           /\ IF free THEN AddsOneNode(dir, Last(comps), TRUE)
              ELSE nodes' = nodes ]_vars

\* C13 witness: touch has created the file its path names.
C13_Witness ==
  /\ last.op = "touch"
  /\ LET new == NewId(nodes) - 1 IN
     /\ new # Root
     /\ nodes[new].is_file
     /\ nodes[new].name = Last(ParsePath(last.path))
     /\ nodes[new].content = EmptyStr
     /\ nodes[new].name \in DOMAIN nodes[nodes[new].parent].children
     /\ nodes[nodes[new].parent].children[nodes[new].name] = new

\* C14: a successful rm p removes exactly the entry named by the last
\* component from the node the other components resolve to and changes no
\* other node; rm with zero components, an unresolved parent or an absent
\* name changes nothing; the cursor is unchanged in every case.
C14_RmOutcome ==
  [][ last'.op = "rm" =>
        LET comps   == ParsePath(last'.path)
            dir     == IF comps = <<>> THEN NONE
                       ELSE Traverse(nodes, current, AllButLast(comps))
            present == dir # NONE /\ Last(comps) \in DOMAIN nodes[dir].children
        IN /\ current' = current
           /\ IF present
                THEN /\ DOMAIN nodes' = DOMAIN nodes
                     /\ DOMAIN nodes'[dir].children =
                          DOMAIN nodes[dir].children \ {Last(comps)}
                     /\ \A k \in DOMAIN nodes'[dir].children :
                          nodes'[dir].children[k] = nodes[dir].children[k]
                     /\ [nodes'[dir] EXCEPT !.children = nodes[dir].children]
                          = nodes[dir]
                     /\ \A n \in DOMAIN nodes \ {dir} : nodes'[n] = nodes[n]
                ELSE nodes' = nodes ]_vars

\* C14 witness: rm has removed a directory that has a child, and the entry is
\* gone from its parent.
C14_Witness ==
  /\ last.op = "rm"
  /\ LET comps == ParsePath(last.path) IN
     /\ comps # <<>>
     /\ LET dir == Traverse(nodes, current, AllButLast(comps)) IN
        /\ dir # NONE
        /\ Last(comps) \notin DOMAIN nodes[dir].children
        /\ \E n \in DOMAIN nodes \ {Root} :
             /\ nodes[n].parent = dir
             /\ nodes[n].name = Last(comps)
             /\ DOMAIN nodes[n].children # {}

\* C15 (under Spec): cd "/" sets the cursor to the root; cd p on a path that
\* resolves to a directory sets the cursor to that node; cd p on a path that
\* does not resolve or resolves to a file leaves the cursor unchanged; cd
\* never changes the tree.
C15_CdOutcome ==
  [][ last'.op = "cd" =>
        LET t == Traverse(nodes, current, ParsePath(last'.path)) IN
        /\ nodes' = nodes
        /\ last'.path = <<Slash>> => current' = Root
        /\ (last'.path # <<Slash>> /\ t # NONE /\ ~nodes[t].is_file)
             => current' = t
        /\ (last'.path # <<Slash>> /\ (t = NONE \/ nodes[t].is_file))
             => current' = current ]_vars

\* C15 witness: cd a has moved the cursor into the directory a.
C15_Witness ==
  /\ last.op = "cd"
  /\ last.path = P_a
  /\ current # Root
  /\ nodes[current].name = <<"a">>
  /\ ~nodes[current].is_file

AllEdgePaths ==
  EdgeMkdirPaths \cup EdgeTouchPaths \cup EdgeCdPaths \cup EdgeRmPaths
    \cup EdgeWritePaths \cup EdgeCatPaths \cup EdgeLsPaths

\* C16: resolution of a component list fails whenever a component that is
\* not the last one of the list descends into a file, also when the file's
\* name equals the last component; cat of such a path reports not found.
C16_PositionalFileGuard ==
  \A p \in AllEdgePaths :
    LET comps == ParsePath(p) IN
    PrefixIsFile(nodes, current, comps)
      => /\ Traverse(nodes, current, comps) = NONE
         /\ CatOut(nodes, current, p) = FileNotFound \o Join(comps, <<Slash>>)

\* C17: mkdir p removes no node and no entry, changes the kind, content, name
\* and parent of no existing node and does not move the cursor; every node it
\* adds is a directory named by a component of p other than "." and "..";
\* when p already resolves to a node it adds nothing.
C17_MkdirOnlyAdds ==
  [][ last'.op = "mkdir" =>
        LET comps == ParsePath(last'.path) IN
        /\ current' = current
        /\ DOMAIN nodes \subseteq DOMAIN nodes'
        /\ \A n \in DOMAIN nodes :
             /\ nodes'[n].is_file = nodes[n].is_file
             /\ nodes'[n].content = nodes[n].content
             /\ nodes'[n].name = nodes[n].name
             /\ nodes'[n].parent = nodes[n].parent
             /\ \A k \in DOMAIN nodes[n].children :
                  /\ k \in DOMAIN nodes'[n].children
                  /\ nodes'[n].children[k] = nodes[n].children[k]
        /\ \A n \in DOMAIN nodes' \ DOMAIN nodes :
             /\ ~nodes'[n].is_file
             /\ nodes'[n].content = EmptyStr
             /\ nodes'[n].name \in Range(comps) \ {Dot, DotDot}
        /\ Traverse(nodes, current, comps) # NONE => nodes' = nodes ]_vars

\* C17 witness: mkdir a/../b has made the directories a and b under the
\* cursor.
C17_Witness ==
  /\ last.op = "mkdir"
  /\ last.path = P_a_up_b
  /\ LET new == NewId(nodes) - 1 IN
     /\ new # Root
     /\ nodes[new].name = <<"b">>
     /\ ~nodes[new].is_file
     /\ nodes[new].parent = current
     /\ <<"a">> \in DOMAIN nodes[current].children

\* C18: every non-root node reachable from the root is stored in its parent's
\* children mapping under its own name; the root has no parent and is a
\* directory.
C18_ParentChildConsistency ==
  /\ nodes[Root].parent = NONE
  /\ ~nodes[Root].is_file
  /\ \A n \in Subtree(nodes, Root) \ {Root} :
       LET parent == nodes[n].parent IN
       /\ parent \in DOMAIN nodes
       /\ nodes[n].name \in DOMAIN nodes[parent].children
       /\ nodes[parent].children[nodes[n].name] = n

\* C18 witness: a node two levels below the root is reachable from the root
\* after a create.
C18_Witness ==
  /\ last.op \in {"mkdir", "touch"}
  /\ \E n \in Subtree(nodes, Root) : Depth(nodes, n) = 2

\* C19 (under SpecLs): ls, pwd and cat, whether they succeed or fail, leave
\* every node and the cursor unchanged; the operations that only resolve a
\* path (cd, write, rm) create no node.
C19_ReadsDoNotMutate ==
  [][ /\ last'.op \in {"ls", "pwd", "cat"}
           => (nodes' = nodes /\ current' = current)
      /\ last'.op \in {"cd", "write", "rm"}
           => DOMAIN nodes' = DOMAIN nodes ]_vars

\* C19 witness: ls has acted on a path that does not resolve, and the path
\* still does not resolve.
C19_Witness ==
  /\ last.op = "ls"
  /\ last.path = P_a
  /\ Traverse(nodes, current, ParsePath(P_a)) = NONE

\* C20: no children mapping has the key "." or "..", and no node has such a
\* name.
C20_NoDotNames ==
  \A n \in DOMAIN nodes :
    /\ nodes[n].name \notin {Dot, DotDot}
    /\ DOMAIN nodes[n].children \cap {Dot, DotDot} = {}
====
